---- MODULE Spec2Model ----
(***************************************************************************)
(* Transcript acquisition, summarization fallback, rate limiting and retry *)
(* of the YouTube summarizer backend, modelled from src/app.               *)
(*                                                                         *)
(* Four specifications share this module, one per component:               *)
(*   Spec       get_transcript / get_diarized_transcript (youtube_service, *)
(*              gemini_audio_service, transcription_service)               *)
(*   SpecSum    _generate_summary and the two providers (routes,           *)
(*              summarization_service)                                     *)
(*   SpecRL     RateLimiter.is_allowed (middleware/rate_limiter)           *)
(*   SpecRetry  the retry decorator (utils/decorators)                     *)
(*                                                                         *)
(* Conventions.  A Python Optional[str] is a record [some, lines]: None is *)
(* [some |-> FALSE], a string is the sequence of its lines ('' is <<>>),   *)
(* and Python truthiness is Truthy.  Offsets are in tenths of a second so  *)
(* that int() has something to truncate.                                   *)
(*                                                                         *)
(* Names the source reads but src/ does not define: routes.py and          *)
(* summarization_service.py read Config.USE_PERPLEXITY and                 *)
(* Config.GOOGLE_API_KEY (the layout of src/app.py:89-91), and             *)
(* youtube_service.py reads config.max_video_duration, which config.py     *)
(* does not declare.  The first two are modelled by the key fields of      *)
(* config.py, the ceiling by max_video_duration below.                     *)
(***************************************************************************)
EXTENDS Integers, Sequences, FiniteSets, TLC

\* ------------------------------------------------------------------ bounds
MaxRest == 2        \* characters after the URL prefix
MaxItems == 2       \* caption items / whisper segments per answer
MaxPolls == 2       \* polls counted exactly; the loop itself is unbounded
MaxLimit == 2       \* rate limits 1..MaxLimit
MaxWindow == 2      \* windows of 1..MaxWindow seconds
MaxTime == 5        \* the clock stops here
MaxCalls == 4       \* is_allowed calls per behaviour
MaxAttempts == 3    \* retry budgets 1..MaxAttempts
MaxRequests == 2    \* HTTP requests per behaviour
NThreads == 2       \* threads serving requests at the same time
MaxBuilt == 2       \* no new first use once this many models were built
MaxTenths == 60     \* offsets up to this many tenths past each base offset

\* --------------------------------------------------------------- constants
MAX_DOWNLOAD_ATTEMPTS == 3
DOWNLOAD_RETRY_DELAY == 5
DOWNLOAD_BACKOFF == 1
max_video_duration == 5400

ERROR_INVALID_URL == "Invalid YouTube URL"

VARIABLES
    \* configuration (config.py 58-59), fixed at start-up
    perplexity_api_key, google_api_key,
    \* acquisition (Spec)
    pc, url, diar, video_id, calls, fs, remote, audio_path,
    attempt, current_delay, sleeps, rstate, pending, result, whisper_model,
    obtained, uploaded, rm_failed, caption_text, duration, dl_outcomes,
    whisper_text, response,
    \* summarization (SpecSum)
    s_pc, s_entry, s_raw_kind, s_kind, s_text, s_sent, s_answers, summary,
    s_result, s_status, s_document, s_raised,
    \* rate limiter (SpecRL)
    requests, now, rl_limit, rl_window, rl_ncalls, rl_nadmitted, rl_first,
    rl_last, rl_sweep, rl_admitted, rl_shadow,
    \* retry decorator (SpecRetry)
    r_pc, r_max_attempts, r_delay, r_backoff, r_exceptions, r_attempt,
    r_current_delay, r_outcomes, r_sleeps, r_result, r_last_exception,
    \* HTTP requests in front of the two operations (SpecGate)
    g_log,
    \* concurrent is_allowed calls (SpecRLThreads)
    th_pc, th_id, th_now, th_res,
    \* concurrent init_whisper calls (SpecWhisperInit)
    wi_pc, wi_model, wi_built, wi_local, wi_ret,
    \* one format_seconds call (SpecFormat)
    f_pc, f_seconds, f_out

cfgVars == <<perplexity_api_key, google_api_key>>
acqVars == <<pc, url, diar, video_id, calls, fs, remote,
             audio_path, attempt, current_delay, sleeps, rstate, pending,
             result, whisper_model, obtained, uploaded, rm_failed,
             caption_text, duration, dl_outcomes,
            whisper_text, response>>
sumVars == <<s_pc, s_entry, s_raw_kind, s_kind, s_text, s_sent, s_answers,
             summary, s_result, s_status, s_document, s_raised>>
rlVars == <<requests, now, rl_limit, rl_window, rl_ncalls, rl_nadmitted,
            rl_first, rl_last, rl_sweep,
                   rl_admitted, rl_shadow>>
retryVars == <<r_pc, r_max_attempts, r_delay, r_backoff, r_exceptions, r_attempt,
               r_current_delay, r_outcomes, r_sleeps, r_result,
               r_last_exception>>

gateVars == <<g_log>>
thrVars == <<th_pc, th_id, th_now, th_res>>
wiVars == <<wi_pc, wi_model, wi_built, wi_local, wi_ret>>
fmtVars == <<f_pc, f_seconds, f_out>>

vars == <<cfgVars, acqVars, sumVars, rlVars, retryVars, gateVars, thrVars,
          wiVars, fmtVars>>
notAcq == <<cfgVars, sumVars, rlVars, retryVars, gateVars, thrVars, wiVars,
          fmtVars>>
notSum == <<cfgVars, acqVars, rlVars, retryVars, gateVars, thrVars, wiVars,
          fmtVars>>
notRL == <<cfgVars, acqVars, sumVars, retryVars, gateVars, thrVars, wiVars,
          fmtVars>>
notRetry == <<cfgVars, acqVars, sumVars, rlVars, gateVars, thrVars, wiVars,
          fmtVars>>
notGate == <<cfgVars, acqVars, sumVars, retryVars, thrVars, wiVars,
          fmtVars>>
notThr == <<cfgVars, acqVars, sumVars, retryVars, gateVars, wiVars,
          fmtVars>>
notWI == <<cfgVars, acqVars, sumVars, rlVars, retryVars, gateVars, thrVars,
          fmtVars>>
notFmt == <<cfgVars, acqVars, sumVars, rlVars, retryVars, gateVars, thrVars,
           wiVars>>

\* ------------------------------------------------------------ Optional[str]
None == [some |-> FALSE, lines |-> <<>>]
Some(ls) == [some |-> TRUE, lines |-> ls]
Truthy(t) == t.some /\ Len(t.lines) > 0

\* ------------------------------------------------------------------- URLs
Prefixes == {"https://www.youtube.com/watch?v=", "https://youtu.be/",
             "https://www.youtube.com/embed/", "https://vimeo.com/", ""}
Chars == {"a", "-", "&"}
WordChars == {"a", "-"}
Rests == UNION {[1..n -> Chars] : n \in 0..MaxRest}
Urls == [prefix : Prefixes, rest : Rests]

RECURSIVE WordRun(_)
WordRun(s) ==
    IF s = <<>> \/ Head(s) \notin WordChars THEN <<>>
    ELSE <<Head(s)>> \o WordRun(Tail(s))

YoutubePrefixes == {"https://www.youtube.com/watch?v=", "https://youtu.be/",
                    "https://www.youtube.com/embed/"}

extract_video_id(u) ==
    IF u.prefix \in YoutubePrefixes /\ WordRun(u.rest) # <<>>
    THEN Some(WordRun(u.rest))
    ELSE None

\* ------------------------------------------------------------- timestamps
format_seconds_NoHours(tenths) ==
    LET seconds == tenths \div 10
    IN <<seconds \div 60, seconds % 60>>

\* formatting.py 16-24: int(seconds), then the hour, minute and second
\* fields, each printed with at least two digits; offsets are in tenths of a
\* second
format_seconds(tenths) ==
    LET seconds == tenths \div 10
        hours == seconds \div 3600
        minutes == (seconds % 3600) \div 60
        secs == seconds % 60
    IN IF hours > 0 THEN <<hours, minutes, secs>> ELSE <<minutes, secs>>

Starts == {0, 52, 36610}
Texts == {"Hello", " "}
strip(t) == IF t = " " THEN "" ELSE t
Items == [start : Starts, text : Texts]
ItemSeqs == UNION {[1..n -> Items] : n \in 0..MaxItems}

RECURSIVE FormatLines(_)
FormatLines(items) ==
    IF items = <<>> THEN <<>>
    ELSE LET it == Head(items)
         IN (IF strip(it.text) # ""
             THEN <<[ts |-> format_seconds(it.start), text |-> it.text]>>
             ELSE <<>>) \o FormatLines(Tail(items))

\* captions: the lookup raises, or it answers with items
CaptionOutcomes == {[raises |-> TRUE, items |-> <<>>]} \cup
                   [raises : {FALSE}, items : ItemSeqs]

get_youtube_transcript(o) ==
    IF o.raises THEN [transcript |-> None, source |-> "None"]
    ELSE [transcript |-> Some(FormatLines(o.items)), source |-> "youtube"]

\* ---------------------------------------------------------------- results
\* a call's outcome: a returned pair (transcript, source/message), or a raised
\* exception (exc is its class, source the .source attribute it carries)
Ret(t, s) == [kind |-> "return", transcript |-> t, source |-> s, exc |-> "none"]
Raise(e, s) == [kind |-> "raise", transcript |-> None, source |-> s, exc |-> e]
NoResult == [kind |-> "none", transcript |-> None, source |-> "none", exc |-> "none"]

Collaborators == {"captions", "title", "metadata", "download", "whisper",
                  "upload", "poll", "generate", "rdelete"}
Count(c) == [calls EXCEPT ![c] = @ + 1]

\* ------------------------------------------------------------ local files
Placeholder(k) == <<"m4a", k>>   \* mkstemp(suffix='.m4a') of attempt k
Mp3(k) == <<"mp3", k>>           \* audio_path.replace('.m4a', '.mp3')
NoPath == <<"none", 0>>
Blob == "files/1"                \* the name the remote store gives the upload

\* os.remove(path): the file goes away unless the call raises
Remove(files, path, ok) == IF ok THEN files \ {path} ELSE files

\* --------------------------------------------------------- retry decorator
RetryOnFailure_GivesUpEarly(att, max_attempts, allowlisted) ==
    IF ~allowlisted THEN "raise"
    ELSE IF att + 1 >= max_attempts THEN "raise"
    ELSE "sleep"

RetryOnFailure_RetriesAll(att, max_attempts, allowlisted) ==
    IF att = max_attempts THEN "raise" ELSE "sleep"

\* the except branch of retry.wrapper for one failed attempt
RetryOnFailure(att, max_attempts, allowlisted) ==
    IF ~allowlisted THEN "raise"
    ELSE IF att = max_attempts THEN "raise"
    ELSE "sleep"

\* ------------------------------------------------------------ environment
MetadataOutcomes == {"raises", "short", "too_long"}
Duration(o) == IF o = "too_long" THEN max_video_duration + 1 ELSE 600
AttemptOutcomes == {"raises", "no_file", "ok"}
WhisperOutcomes == [raises : {"init", "transcribe"}, items : {<<>>}] \cup
                   [raises : {"no"}, items : ItemSeqs]
UploadOutcomes == {"raises", "PROCESSING", "ACTIVE", "FAILED"}
\* generate_content raises; or response.text is None without candidates, None
\* with a candidate stopped by the safety filter, the empty string with a
\* candidate that stopped normally; or it is the transcript
GenerateOutcomes == {"raises", "no_text", "blocked", "empty", "text"}
NoTextOutcomes == {"no_text", "blocked", "empty"}
GeminiText == <<[ts |-> <<0, 0, 0>>, text |-> "Speaker 1: Hello"]>>

\* ------------------------------------------------------------ rate limiter
Identifiers == {"10.0.0.1", "10.0.0.2"}
NoCall == [id |-> "none", t |-> 0, res |-> FALSE, before |-> <<>>, prev |-> <<>>]

\* =================================================================== Init
InitAcq ==
    /\ pc = "idle"
    /\ url = [prefix |-> "", rest |-> <<>>]
    /\ diar = FALSE
    /\ video_id = None
    /\ calls = [c \in Collaborators |-> 0]
    /\ fs = {}
    /\ remote = {}
    /\ audio_path = NoPath
    /\ attempt = 0
    /\ current_delay = 0
    /\ sleeps = <<>>
    /\ rstate = "none"
    /\ pending = NoResult
    /\ result = NoResult
    /\ whisper_model = FALSE
    /\ obtained = FALSE
    /\ uploaded = FALSE
    /\ rm_failed = {}
    /\ caption_text = None
    /\ duration = 0
    /\ dl_outcomes = <<>>
    /\ whisper_text = None
    /\ response = "none"

\* config.py 85-96: start-up fails unless at least one key is set
ValidConfig == perplexity_api_key # "" \/ google_api_key # ""

InitCfg ==
    /\ perplexity_api_key \in {"", "key"}
    /\ google_api_key \in {"", "key"}
    /\ ValidConfig

InitCfgBoth ==
    /\ perplexity_api_key = "key"
    /\ google_api_key = "key"

NotRaised == [raised |-> FALSE, provider |-> "none", message |-> "none"]

InitSum ==
    /\ s_pc = "idle"
    /\ s_entry = "none"
    /\ s_raw_kind = "normal"
    /\ s_kind = "normal"
    /\ s_text = [id |-> "t", len |-> 0]
    /\ s_sent = <<>>
    /\ s_answers = [p \in {"perplexity", "gemini"} |-> None]
    /\ summary = None
    /\ s_result = [summary |-> None, error |-> "none"]
    /\ s_status = 0
    /\ s_document = FALSE
    /\ s_raised = NotRaised

\* the limiter as it would be had cleanup never run: its table and its
\* answer to the last call
NoShadow == [table |-> <<>>, res |-> FALSE]

\* no cleanup has run
NoSweep == [fresh |-> FALSE, t |-> 0, prev |-> <<>>]

InitRL ==
    /\ requests = <<>>
    /\ now = 0
    /\ rl_limit \in 1..MaxLimit
    /\ rl_window \in 1..MaxWindow
    /\ rl_ncalls = [i \in Identifiers |-> 0]
    /\ rl_nadmitted = [i \in Identifiers |-> 0]
    /\ rl_first = [i \in Identifiers |-> 0]
    /\ rl_last = NoCall
    /\ rl_sweep = NoSweep
    /\ rl_admitted = [i \in Identifiers |-> <<>>]
    /\ rl_shadow = NoShadow

InitRLIdle ==
    /\ requests = <<>>
    /\ now = 0
    /\ rl_limit = 1
    /\ rl_window = 1
    /\ rl_ncalls = [i \in Identifiers |-> 0]
    /\ rl_nadmitted = [i \in Identifiers |-> 0]
    /\ rl_first = [i \in Identifiers |-> 0]
    /\ rl_last = NoCall
    /\ rl_sweep = NoSweep
    /\ rl_admitted = [i \in Identifiers |-> <<>>]
    /\ rl_shadow = NoShadow

InitRetry ==
    /\ r_pc = "idle"
    /\ r_max_attempts = 1
    /\ r_delay = 1
    /\ r_backoff = 1
    /\ r_exceptions = {}
    /\ r_attempt = 0
    /\ r_current_delay = 0
    /\ r_outcomes = <<>>
    /\ r_sleeps = <<>>
    /\ r_result = [kind |-> "none", val |-> <<"none", 0>>]
    /\ r_last_exception = <<"none", 0>>

\* no request handled yet
InitGate == g_log = <<>>

\* the serving threads (app.run serves each request on its own thread)
Threads == 1..NThreads

InitThr ==
    /\ th_pc = [t \in Threads |-> "idle"]
    /\ th_id = [t \in Threads |-> "none"]
    /\ th_now = [t \in Threads |-> 0]
    /\ th_res = [t \in Threads |-> "none"]

\* transcription_service.py 6: whisper_model = None (0 stands for None, k for
\* the k-th WhisperModel constructed)
InitWI ==
    /\ wi_pc = [t \in Threads |-> "idle"]
    /\ wi_model = 0
    /\ wi_built = 0
    /\ wi_local = [t \in Threads |-> 0]
    /\ wi_ret = [t \in Threads |-> 0]

\* no format_seconds call yet
InitFmt == f_pc = "idle" /\ f_seconds = 0 /\ f_out = <<>>

InitIdle == InitGate /\ InitThr /\ InitWI /\ InitFmt

Init == InitCfg /\ InitAcq /\ InitSum /\ InitRLIdle /\ InitRetry /\ InitIdle

\* ============================================================ get_transcript
\* lines 339-342: the call starts; a URL without a video id ends it at once
StartGetTranscript ==
    /\ pc = "idle"
    /\ \E u \in Urls :
        /\ url' = u
        /\ video_id' = extract_video_id(u)
        /\ IF ~extract_video_id(u).some
           THEN /\ pc' = "done"
                /\ result' = Ret(None, ERROR_INVALID_URL)
           ELSE /\ pc' = "captions"
                /\ UNCHANGED result
    /\ diar' = FALSE
    /\ UNCHANGED <<calls, fs, remote, audio_path, attempt,
                   current_delay, sleeps, rstate, pending, whisper_model,
                   obtained, uploaded, rm_failed, caption_text>>
    /\ UNCHANGED <<duration, dl_outcomes>>
    /\ UNCHANGED <<whisper_text, response>>
    /\ UNCHANGED notAcq

AfterCaptions_IgnoreHit(t) == "metadata"

\* lines 348-354: a truthy caption transcript ends the call, anything else
\* falls through to download_audio_from_youtube
AfterCaptions(t) == IF Truthy(t) THEN "done" ELSE "metadata"

\* lines 346-350: caption lookup; a truthy transcript is returned
CaptionLookup ==
    /\ pc = "captions"
    /\ \E o \in CaptionOutcomes :
        LET r == get_youtube_transcript(o) IN
        /\ caption_text' = r.transcript
        /\ pc' = AfterCaptions(r.transcript)
        /\ result' = IF AfterCaptions(r.transcript) = "done"
                     THEN Ret(r.transcript, r.source) ELSE result
    /\ calls' = Count("captions")
    /\ UNCHANGED <<url, diar, video_id, fs, remote,
                   audio_path, attempt, current_delay, sleeps, rstate,
                   pending, whisper_model, obtained, uploaded, rm_failed>>
    /\ UNCHANGED <<duration, dl_outcomes>>
    /\ UNCHANGED <<whisper_text, response>>
    /\ UNCHANGED notAcq

\* ================================================= get_diarized_transcript
StartGetDiarized ==
    /\ pc = "idle"
    /\ \E u \in Urls : url' = u
    /\ diar' = TRUE
    /\ pc' = "title"
    /\ UNCHANGED <<video_id, calls, fs, remote, audio_path,
                   attempt, current_delay, sleeps, rstate, pending, result,
                   whisper_model, obtained, uploaded, rm_failed,
                   caption_text>>
    /\ UNCHANGED <<duration, dl_outcomes>>
    /\ UNCHANGED <<whisper_text, response>>
    /\ UNCHANGED notAcq

\* line 287: get_video_title swallows its own failure
FetchTitle ==
    /\ pc = "title"
    /\ calls' = Count("title")
    /\ pc' = "grounding"
    /\ UNCHANGED <<url, diar, video_id, fs, remote,
                   audio_path, attempt, current_delay, sleeps, rstate,
                   pending, result, whisper_model, obtained, uploaded,
                   rm_failed, caption_text>>
    /\ UNCHANGED <<duration, dl_outcomes>>
    /\ UNCHANGED <<whisper_text, response>>
    /\ UNCHANGED notAcq

\* lines 290-299: duration for grounding; any failure is logged only
FetchGroundingDuration ==
    /\ pc = "grounding"
    /\ calls' = Count("metadata")
    /\ pc' = "metadata"
    /\ UNCHANGED <<url, diar, video_id, fs, remote,
                   audio_path, attempt, current_delay, sleeps, rstate,
                   pending, result, whisper_model, obtained, uploaded,
                   rm_failed, caption_text>>
    /\ UNCHANGED <<duration, dl_outcomes>>
    /\ UNCHANGED <<whisper_text, response>>
    /\ UNCHANGED notAcq

\* ============================================ download_audio_from_youtube
\* lines 199-222: the duration check.  ValidationError is a local name of
\* the function, bound only by the import on line 208, so when the fetch
\* itself raises, evaluating `except ValidationError` raises
\* UnboundLocalError, which leaves the function (and its caller).
DurationGuard_NoCeiling(o) ==
    IF o = "raises" THEN "UnboundLocalError" ELSE "pass"

DurationGuard(o) ==
    IF o = "raises" THEN "UnboundLocalError"
    ELSE IF Duration(o) > max_video_duration THEN "ValidationError"
    ELSE "pass"

DurationCheck ==
    /\ pc = "metadata"
    /\ \E o \in MetadataOutcomes :
        /\ duration' = IF o = "raises" THEN duration ELSE Duration(o)
        /\ IF DurationGuard(o) = "pass"
           THEN /\ pc' = "attempt"
                /\ attempt' = 1
                /\ current_delay' = DOWNLOAD_RETRY_DELAY
                /\ UNCHANGED result
           ELSE /\ pc' = "done"
                /\ result' = Raise(DurationGuard(o), "none")
                /\ UNCHANGED <<attempt, current_delay>>
    /\ calls' = Count("metadata")
    /\ UNCHANGED <<url, diar, video_id, fs, remote,
                   audio_path, sleeps, rstate, pending, whisper_model,
                   obtained, uploaded, rm_failed, caption_text>>
    /\ UNCHANGED dl_outcomes
    /\ UNCHANGED <<whisper_text, response>>
    /\ UNCHANGED notAcq

DownloadFailure_ReturnsNone == Ret(None, "Failed to download audio")

\* lines 262-269 with exceptions.py 95-103: what leaves the function when
\* every attempt failed
DownloadFailure == Raise("AudioDownloadError", "audio_download")

AfterDownload_AlwaysWhisper == "whisper"

AfterDownload_BackToCaptions == IF diar THEN "upload" ELSE "captions"

\* what pc follows a successful download in the caller
AfterDownload == IF diar THEN "upload" ELSE "whisper"

AttemptFailed_OnlyExceptions(o) == o = "raises"

\* lines 251-260: an attempt fails when yt-dlp raises, and also when the
\* converted mp3 file is not there afterwards (AudioDownloadError, line 260)
AttemptFailed(o) == o # "ok"

\* lines 224-269: one attempt of _download under retry(3, 5, 1.0); every
\* exception is allow-listed (exceptions = (Exception,)), and whatever is
\* raised last leaves the function as AudioDownloadError
DownloadAttempt ==
    /\ pc = "attempt"
    /\ \E o \in AttemptOutcomes :
        /\ dl_outcomes' = Append(dl_outcomes, o)
        /\ fs' = fs \cup {Placeholder(attempt)}
                    \cup (IF o = "ok" THEN {Mp3(attempt)} ELSE {})
        /\ IF ~AttemptFailed(o)
           THEN /\ audio_path' = Mp3(attempt)
                /\ obtained' = TRUE
                /\ pc' = AfterDownload
                /\ UNCHANGED result
           ELSE /\ UNCHANGED <<audio_path, obtained>>
                /\ IF RetryOnFailure(attempt, MAX_DOWNLOAD_ATTEMPTS, TRUE) = "raise"
                   THEN /\ pc' = "done"
                        /\ result' = DownloadFailure
                   ELSE /\ pc' = "backoff"
                        /\ UNCHANGED result
    /\ calls' = Count("download")
    /\ UNCHANGED <<url, diar, video_id, remote, attempt,
                   current_delay, sleeps, rstate, pending, whisper_model,
                   uploaded, rm_failed, caption_text>>
    /\ UNCHANGED duration
    /\ UNCHANGED <<whisper_text, response>>
    /\ UNCHANGED notAcq

\* decorators.py 70-72: sleep, then the next attempt
DownloadBackoff ==
    /\ pc = "backoff"
    /\ sleeps' = Append(sleeps, current_delay)
    /\ current_delay' = current_delay * DOWNLOAD_BACKOFF
    /\ attempt' = attempt + 1
    /\ pc' = "attempt"
    /\ UNCHANGED <<url, diar, video_id, calls, fs, remote,
                   audio_path, rstate, pending, result, whisper_model,
                   obtained, uploaded, rm_failed, caption_text>>
    /\ UNCHANGED <<duration, dl_outcomes>>
    /\ UNCHANGED <<whisper_text, response>>
    /\ UNCHANGED notAcq

\* ================================================= transcribe_with_whisper
\* transcription_service.py 18-46: None on any exception; on success the
\* function removes the audio file itself and ignores OSError
transcribe_with_whisper(o) ==
    IF o.raises # "no" THEN None ELSE Some(FormatLines(o.items))

WhisperResult_WhisperFailed(t) ==
    IF Truthy(t) THEN Ret(t, "whisper")
    ELSE IF ~t.some THEN Ret(None, "Whisper failed")
    ELSE Ret(None, "Failed to transcribe audio (Empty)")

WhisperResult_EmptyIsSuccess(t) ==
    IF t.some THEN Ret(t, "whisper")
    ELSE Ret(None, "Failed to transcribe audio (Empty)")

\* youtube_service.py 359-371: the try block of get_transcript
WhisperResult(t) ==
    IF Truthy(t) THEN Ret(t, "whisper")
    ELSE Ret(None, "Failed to transcribe audio (Empty)")

Whisper ==
    /\ pc = "whisper"
    /\ \E o \in WhisperOutcomes, rmOk \in BOOLEAN :
        /\ whisper_model' = (whisper_model \/ o.raises # "init")
        /\ fs' = IF o.raises = "no" THEN Remove(fs, audio_path, rmOk) ELSE fs
        /\ whisper_text' = transcribe_with_whisper(o)
        /\ pending' = WhisperResult(transcribe_with_whisper(o))
    /\ calls' = Count("whisper")
    /\ pc' = "cleanup"
    /\ UNCHANGED <<url, diar, video_id, remote, audio_path,
                   attempt, current_delay, sleeps, rstate, result, obtained,
                   uploaded, rm_failed, caption_text>>
    /\ UNCHANGED <<duration, dl_outcomes>>
    /\ UNCHANGED response
    /\ UNCHANGED notAcq

\* =================================================== transcribe_with_gemini
ExitTry_OnlyOnSuccess(r) == IF Truthy(r.transcript) THEN "rdelete" ELSE "cleanup"

\* lines 38-93: every way out of the try block, a return or an exception,
\* runs the finally block first
ExitTry(r) == "rdelete"

AfterCleanup_Escalates(r, ok) == IF ok THEN r ELSE Raise("OSError", "none")

\* gemini_audio_service.py 96-100, youtube_service.py 321-326 and 375-380:
\* the delete sits in its own try/except that only logs, so the value
\* already on its way out of the function is what the caller gets
AfterCleanup(r, ok) == r

\* gemini_audio_service.py 26-35: key check and upload
GeminiUpload ==
    /\ pc = "upload"
    /\ IF google_api_key = ""
       THEN /\ pending' = Ret(None, "Missing API Key")
            /\ pc' = "cleanup"
            /\ UNCHANGED <<calls, remote, rstate, uploaded>>
       ELSE /\ calls' = Count("upload")
            /\ \E o \in UploadOutcomes :
                IF o = "raises"
                THEN /\ pending' = Ret(None, "upload error")
                     /\ pc' = "cleanup"
                     /\ UNCHANGED <<remote, rstate, uploaded>>
                ELSE /\ remote' = remote \cup {Blob}
                     /\ uploaded' = TRUE
                     /\ rstate' = o
                     /\ pc' = "poll"
                     /\ UNCHANGED pending
    /\ UNCHANGED <<url, diar, video_id, fs, audio_path,
                   attempt, current_delay, sleeps, result, whisper_model,
                   obtained, rm_failed, caption_text>>
    /\ UNCHANGED <<duration, dl_outcomes>>
    /\ UNCHANGED <<whisper_text, response>>
    /\ UNCHANGED notAcq

KeepPolling_Never(state) == FALSE

\* gemini_audio_service.py 40: the loop condition, with no bound on rounds
KeepPolling(state) == state = "PROCESSING"

\* lines 40-42: the loop test passes and the thread sleeps 2 s
GeminiPollSleep ==
    /\ pc = "poll"
    /\ KeepPolling(rstate)
    /\ pc' = "poll_get"
    /\ UNCHANGED <<url, diar, video_id, calls, fs, remote,
                   audio_path, attempt, current_delay, sleeps, rstate,
                   pending, result, whisper_model, obtained, uploaded,
                   rm_failed, caption_text>>
    /\ UNCHANGED <<duration, dl_outcomes>>
    /\ UNCHANGED <<whisper_text, response>>
    /\ UNCHANGED notAcq

\* line 43: client.files.get reads the remote state again, or raises
GeminiPoll ==
    /\ pc = "poll_get"
    /\ calls' = [calls EXCEPT !["poll"] = IF @ < MaxPolls THEN @ + 1 ELSE @]
    /\ \E o \in UploadOutcomes :
        IF o = "raises"
        THEN /\ pending' = Ret(None, "poll error")
             /\ pc' = ExitTry(Ret(None, "poll error"))
             /\ UNCHANGED rstate
        ELSE /\ rstate' = o
             /\ pc' = "poll"
             /\ UNCHANGED pending
    /\ UNCHANGED <<url, diar, video_id, fs, remote,
                   audio_path, attempt, current_delay, sleeps, result,
                   whisper_model, obtained, uploaded, rm_failed,
                   caption_text>>
    /\ UNCHANGED <<duration, dl_outcomes>>
    /\ UNCHANGED <<whisper_text, response>>
    /\ UNCHANGED notAcq

\* lines 45-47: the remote state is FAILED
GeminiProcessingFailed ==
    /\ pc = "poll"
    /\ ~KeepPolling(rstate)
    /\ rstate = "FAILED"
    /\ pending' = Ret(None, "Gemini processing failed")
    /\ pc' = ExitTry(Ret(None, "Gemini processing failed"))
    /\ UNCHANGED <<url, diar, video_id, calls, fs, remote,
                   audio_path, attempt, current_delay, sleeps, rstate,
                   result, whisper_model, obtained, uploaded, rm_failed,
                   caption_text>>
    /\ UNCHANGED <<duration, dl_outcomes>>
    /\ UNCHANGED <<whisper_text, response>>
    /\ UNCHANGED notAcq

\* lines 72-91: the generation request and its answer
FinishReason(o) ==
    CASE o = "blocked" -> "SAFETY"
      [] o = "empty" -> "STOP"
      [] OTHER -> "UNKNOWN"
NoTextMessage(reason) ==
    CASE reason = "SAFETY" -> "Gemini returned no text (Reason: SAFETY)"
      [] reason = "STOP" -> "Gemini returned no text (Reason: STOP)"
      [] OTHER -> "Gemini returned no text (Reason: UNKNOWN)"
GenerateResult(o) ==
    IF o = "raises" THEN Ret(None, "generate error")
    ELSE IF o \in NoTextOutcomes THEN Ret(None, NoTextMessage(FinishReason(o)))
    ELSE Ret(Some(GeminiText), "gemini")

GeminiGenerate ==
    /\ pc = "poll"
    /\ ~KeepPolling(rstate)
    /\ rstate # "FAILED"
    /\ calls' = Count("generate")
    /\ \E o \in GenerateOutcomes :
        /\ response' = o
        /\ pending' = GenerateResult(o)
        /\ pc' = ExitTry(GenerateResult(o))
    /\ UNCHANGED <<url, diar, video_id, fs, remote,
                   audio_path, attempt, current_delay, sleeps, rstate,
                   result, whisper_model, obtained, uploaded, rm_failed,
                   caption_text>>
    /\ UNCHANGED <<duration, dl_outcomes>>
    /\ UNCHANGED whisper_text
    /\ UNCHANGED notAcq

\* lines 93-100: the finally block; a failed delete is logged only
GeminiDelete ==
    /\ pc = "rdelete"
    /\ calls' = Count("rdelete")
    /\ \E ok \in BOOLEAN :
        /\ remote' = Remove(remote, Blob, ok)
        /\ rm_failed' = IF ok THEN rm_failed ELSE rm_failed \cup {"remote"}
        /\ pending' = AfterCleanup(pending, ok)
    /\ pc' = "cleanup"
    /\ UNCHANGED <<url, diar, video_id, fs, audio_path,
                   attempt, current_delay, sleeps, rstate, result,
                   whisper_model, obtained, uploaded, caption_text>>
    /\ UNCHANGED <<duration, dl_outcomes>>
    /\ UNCHANGED <<whisper_text, response>>
    /\ UNCHANGED notAcq

\* ========================================================== finally blocks
\* youtube_service.py 373-380 and 319-326: remove the audio file when it
\* still exists; a failed remove is logged only; then the pending result
\* leaves the call
CleanupFiles_Skipped(files, path, ok) == files

CleanupFiles(files, path, ok) ==
    IF path \in files THEN Remove(files, path, ok) ELSE files

Cleanup ==
    /\ pc = "cleanup"
    /\ \E ok \in BOOLEAN :
        /\ fs' = CleanupFiles(fs, audio_path, ok)
        /\ rm_failed' = IF audio_path \in fs /\ ~ok
                        THEN rm_failed \cup {"local"} ELSE rm_failed
        /\ result' = AfterCleanup(pending, audio_path \notin fs \/ ok)
    /\ pc' = "done"
    /\ UNCHANGED <<url, diar, video_id, calls, remote,
                   audio_path, attempt, current_delay, sleeps, rstate,
                   pending, whisper_model, obtained, uploaded, caption_text>>
    /\ UNCHANGED <<duration, dl_outcomes>>
    /\ UNCHANGED <<whisper_text, response>>
    /\ UNCHANGED notAcq

\* ==================================================================== Next
Next ==
    \/ StartGetTranscript
    \/ CaptionLookup
    \/ StartGetDiarized
    \/ FetchTitle
    \/ FetchGroundingDuration
    \/ DurationCheck
    \/ DownloadAttempt
    \/ DownloadBackoff
    \/ Whisper
    \/ GeminiUpload
    \/ GeminiPollSleep
    \/ GeminiPoll
    \/ GeminiProcessingFailed
    \/ GeminiGenerate
    \/ GeminiDelete
    \/ Cleanup

Spec == Init /\ [][Next]_vars

\* youtube_service.py 272-326: the steps of get_diarized_transcript calls
NextDiarized ==
    \/ StartGetDiarized
    \/ FetchTitle
    \/ FetchGroundingDuration
    \/ DurationCheck
    \/ DownloadAttempt
    \/ DownloadBackoff
    \/ GeminiUpload
    \/ GeminiPollSleep
    \/ GeminiPoll
    \/ GeminiProcessingFailed
    \/ GeminiGenerate
    \/ GeminiDelete
    \/ Cleanup

\* a poll after which the wait loop ends: the remote state has left
\* PROCESSING, or files.get raised
PollLeaves == GeminiPoll /\ (rstate' # "PROCESSING" \/ pc' # "poll")

\* the calling thread keeps running, and the remote side does not keep the
\* file in PROCESSING for ever
SpecPoll ==
    Init /\ [][NextDiarized]_vars /\ WF_vars(NextDiarized) /\ SF_vars(PollLeaves)

\* the calling thread keeps running; nothing is assumed of the remote side
SpecRun == Init /\ [][NextDiarized]_vars /\ WF_vars(NextDiarized)

\* ================================================================ SpecSum
\* routes.py 307 and 311 read the flags; config.py 138-141 derives the first
USE_PERPLEXITY == perplexity_api_key # ""
GOOGLE_API_KEY == google_api_key # ""

VALID_SUMMARY_TYPES == {"concise", "normal", "detailed"}
DEFAULT_SUMMARY_TYPE == "normal"
Kinds == VALID_SUMMARY_TYPES \cup {"invalid_type", "None"}

\* validators.validate_summary_type is imported by routes.py and models.py
\* and exercised by tests/unit/test_validators.py, but not defined in src/
validate_summary_type(k) ==
    IF k \in VALID_SUMMARY_TYPES THEN k ELSE DEFAULT_SUMMARY_TYPE

\* summarization_service.py 20-25 / 73-78: one template per kind
Prompts == [k \in VALID_SUMMARY_TYPES |-> <<"template", k>>]
\* summarization_service.py 29-33 / 82-86
MaxTokensMap == [k \in VALID_SUMMARY_TYPES |->
                    CASE k = "concise" -> 1000
                      [] k = "normal" -> 3000
                      [] k = "detailed" -> 8000]

\* prompts.get(summary_type, prompts["normal"])
PromptFor(k) == IF k \in DOMAIN Prompts THEN Prompts[k] ELSE Prompts["normal"]
MaxTokensFor_OtherDefault(k) ==
    IF k \in DOMAIN MaxTokensMap THEN MaxTokensMap[k] ELSE 1000

\* max_tokens_map.get(summary_type, 3000)
MaxTokensFor(k) == IF k \in DOMAIN MaxTokensMap THEN MaxTokensMap[k] ELSE 3000

\* text[:100000] if len(text) > 100000 else text; a text is its identity
\* and its length, a slice keeps the identity and shortens the length
TEXT_SLICE == 100000

\* config.py 66: Config.max_text_length, MAX_TEXT_LENGTH or its default; no
\* provider function reads it
max_text_length == 20000
Truncate(t) == IF t.len > TEXT_SLICE THEN [t EXCEPT !.len = TEXT_SLICE] ELSE t
TextLens == {1, TEXT_SLICE, TEXT_SLICE + 1}
SumTexts == [id : {"t"}, len : TextLens]

\* the request a provider builds before it posts it
ProviderRequest(p, t, k) ==
    [provider |-> p, prompt |-> PromptFor(k), max_tokens |-> MaxTokensFor(k),
     text |-> Truncate(t)]

\* what a provider function returns: None on any exception, else the content
\* field of the answer, which may be the empty string
ProviderAnswers == {None, Some(<<>>), Some(<<"summary">>)}

\* routes.py 307-316: which provider _generate_summary calls first
FirstProvider_AlwaysPrimary == "primary"

FirstProvider == IF USE_PERPLEXITY THEN "primary" ELSE "secondary"

AfterPrimary_AlwaysSecondary(a) == "secondary"

\* routes.py 311: after the primary's answer
AfterPrimary(a) == IF ~Truthy(a) /\ GOOGLE_API_KEY THEN "secondary" ELSE "finish"

\* routes.py 318-323: the pair _generate_summary returns
ERROR_SUMMARIZATION_FAILED == "Failed to generate summary"
SummaryResult_OnlyNoneFails(a) ==
    IF ~a.some THEN [summary |-> None, error |-> ERROR_SUMMARIZATION_FAILED]
    ELSE [summary |-> a, error |-> "none"]

SummaryResult(a) ==
    IF ~Truthy(a) THEN [summary |-> None, error |-> ERROR_SUMMARIZATION_FAILED]
    ELSE [summary |-> a, error |-> "none"]

\* a summarize call starts: through /api/summarize (routes.py 336-352, the
\* kind is normalised first) or by a direct call of _generate_summary
SumStart ==
    /\ s_pc = "idle"
    /\ \E e \in {"endpoint", "direct", "controller"}, k \in Kinds, t \in SumTexts :
        /\ s_entry' = e
        /\ s_raw_kind' = k
        /\ s_kind' = IF e = "endpoint" THEN validate_summary_type(k) ELSE k
        /\ s_text' = t
    /\ s_pc' = FirstProvider
    /\ UNCHANGED <<s_sent, s_answers, summary, s_result, s_status, s_document,
                   s_raised>>
    /\ UNCHANGED notSum

\* routes.py 308-313 with summarize_with_perplexity
CallPerplexity ==
    /\ s_pc = "primary"
    /\ s_sent' = Append(s_sent, ProviderRequest("perplexity", s_text, s_kind))
    /\ \E a \in ProviderAnswers :
        /\ s_answers' = [s_answers EXCEPT !["perplexity"] = a]
        /\ summary' = a
        /\ s_pc' = AfterPrimary(a)
    /\ UNCHANGED <<s_entry, s_raw_kind, s_kind, s_text, s_result, s_status,
                   s_document, s_raised>>
    /\ UNCHANGED notSum

\* routes.py 313 / 316 with summarize_with_gemini
CallGemini ==
    /\ s_pc = "secondary"
    /\ s_sent' = Append(s_sent, ProviderRequest("gemini", s_text, s_kind))
    /\ \E a \in ProviderAnswers :
        /\ s_answers' = [s_answers EXCEPT !["gemini"] = a]
        /\ summary' = a
    /\ s_pc' = "finish"
    /\ UNCHANGED <<s_entry, s_raw_kind, s_kind, s_text, s_result, s_status,
                   s_document, s_raised>>
    /\ UNCHANGED notSum

\* config.py 143-146: the configured (primary) provider
ai_provider == IF USE_PERPLEXITY THEN "perplexity" ELSE "gemini"

\* controllers/__init__.py 187-195: SummaryController.generate_summary
\* returns the summary or raises SummarizationError
ALL_APIS_FAILED == "All summarization APIs failed"
ControllerResult(a) ==
    IF ~Truthy(a) THEN [summary |-> None, error |-> ALL_APIS_FAILED]
    ELSE [summary |-> a, error |-> "none"]

ControllerRaise(a) ==
    IF ~Truthy(a)
    THEN [raised |-> TRUE, provider |-> ai_provider, message |-> ALL_APIS_FAILED]
    ELSE NotRaised

\* routes.py 318-323, and 352-407 for the endpoint's answer;
\* controllers/__init__.py 187-195 for the controller
SumFinish ==
    /\ s_pc = "finish"
    /\ s_result' = IF s_entry = "controller" THEN ControllerResult(summary)
                   ELSE SummaryResult(summary)
    /\ s_raised' = IF s_entry = "controller" THEN ControllerRaise(summary)
                   ELSE NotRaised
    /\ IF s_entry = "endpoint"
       THEN /\ s_status' = IF SummaryResult(summary).error # "none"
                           THEN 500 ELSE 200
            /\ s_document' = (SummaryResult(summary).error = "none")
       ELSE UNCHANGED <<s_status, s_document>>
    /\ s_pc' = "done"
    /\ UNCHANGED <<s_entry, s_raw_kind, s_kind, s_text, s_sent, s_answers,
                   summary>>
    /\ UNCHANGED notSum

NextSum == SumStart \/ CallPerplexity \/ CallGemini \/ SumFinish

SpecSum == Init /\ [][NextSum]_vars

\* ================================================================= SpecRL
\* RateLimiter.requests is a defaultdict(deque): an identifier that was never
\* looked up has no entry; here the table is a function on the identifiers
\* looked up so far
History(table, id) == IF id \in DOMAIN table THEN table[id] ELSE <<>>

PopOld_KeepsAll(times, cutoff) == times

RECURSIVE PopOld_Inclusive(_, _)
PopOld_Inclusive(times, cutoff) ==
    IF times # <<>> /\ Head(times) <= cutoff
    THEN PopOld_Inclusive(Tail(times), cutoff)
    ELSE times

\* rate_limiter.py 49-51: popleft while the oldest timestamp is < cutoff
RECURSIVE PopOld(_, _)
PopOld(times, cutoff) ==
    IF times # <<>> /\ Head(times) < cutoff THEN PopOld(Tail(times), cutoff)
    ELSE times

Admits_OffByOne(times, limit) == ~(Len(times) > limit)

\* rate_limiter.py 54: the admission test on the pruned history
Admits(times, limit) == ~(Len(times) >= limit)

is_allowed_RecordsRejected(table, id, limit, window, t) ==
    LET request_times == PopOld(History(table, id), t - window)
    IN [res |-> Admits(request_times, limit), times |-> Append(request_times, t)]

\* rate_limiter.py 44-60: the answer and the identifier's history afterwards
is_allowed(table, id, limit, window, t) ==
    LET request_times == PopOld(History(table, id), t - window)
    IN IF Admits(request_times, limit)
       THEN [res |-> TRUE, times |-> Append(request_times, t)]
       ELSE [res |-> FALSE, times |-> request_times]

\* the table after a call: the looked-up identifier now has an entry
Store(table, id, times) ==
    [i \in DOMAIN table \cup {id} |-> IF i = id THEN times ELSE table[i]]

\* time.time() moves on between calls
Tick ==
    /\ now < MaxTime
    /\ now' = now + 1
    /\ UNCHANGED <<requests, rl_limit, rl_window, rl_ncalls, rl_nadmitted,
                   rl_first, rl_last, rl_sweep,
                   rl_admitted, rl_shadow>>
    /\ UNCHANGED notRL

TotalCalls == rl_ncalls["10.0.0.1"] + rl_ncalls["10.0.0.2"]

IsAllowed ==
    /\ TotalCalls < MaxCalls
    /\ \E id \in Identifiers :
        LET r == is_allowed(requests, id, rl_limit, rl_window, now) IN
        /\ requests' = Store(requests, id, r.times)
        /\ rl_ncalls' = [rl_ncalls EXCEPT ![id] = @ + 1]
        /\ rl_nadmitted' = [rl_nadmitted EXCEPT ![id] = IF r.res THEN @ + 1 ELSE @]
        /\ rl_first' = IF rl_ncalls[id] = 0 THEN [rl_first EXCEPT ![id] = now]
                       ELSE rl_first
        /\ rl_last' = [id |-> id, t |-> now, res |-> r.res,
                       before |-> History(requests, id), prev |-> requests]
    /\ rl_sweep' = [rl_sweep EXCEPT !.fresh = FALSE]
    /\ \E id \in Identifiers :
        /\ id = rl_last'.id
        /\ rl_admitted' = IF rl_last'.res
                          THEN [rl_admitted EXCEPT ![id] = Append(@, now)]
                          ELSE rl_admitted
        /\ LET g == is_allowed(rl_shadow.table, id, rl_limit, rl_window, now)
           IN rl_shadow' = [table |-> Store(rl_shadow.table, id, g.times),
                            res |-> g.res]
    /\ UNCHANGED <<now, rl_limit, rl_window>>
    /\ UNCHANGED notRL

NextRL == Tick \/ IsAllowed

InitSpecRL == InitCfgBoth /\ InitAcq /\ InitSum /\ InitRL /\ InitRetry /\ InitIdle

SpecRL == InitSpecRL /\ [][NextRL]_vars

\* ---------------------------------------------------------------- cleanup
\* rate_limiter.py 68: entries older than this many seconds are dropped
CLEANUP_AGE == 3600

cleanup_DropsAll(table, t) == <<>>

cleanup_KeepsIdentifiers(table, t) ==
    [i \in DOMAIN table |-> PopOld(table[i], t - CLEANUP_AGE)]

\* rate_limiter.py 67-78: prune every identifier's history at now - 3600
\* and delete the identifiers left without a timestamp
cleanup(table, t) ==
    LET pruned == [i \in DOMAIN table |-> PopOld(table[i], t - CLEANUP_AGE)]
    IN [i \in {j \in DOMAIN table : pruned[j] # <<>>} |-> pruned[i]]

\* an idle hour: time.time() is 3600 s later at the next call
TickHour ==
    /\ now < MaxTime
    /\ now' = now + CLEANUP_AGE
    /\ UNCHANGED <<requests, rl_limit, rl_window, rl_ncalls, rl_nadmitted,
                   rl_first, rl_last, rl_sweep,
                   rl_admitted, rl_shadow>>
    /\ UNCHANGED notRL

\* rate_limiter.py 62-78: RateLimiter.cleanup()
CleanupCall ==
    /\ requests' = cleanup(requests, now)
    /\ rl_sweep' = [fresh |-> TRUE, t |-> now, prev |-> requests]
    /\ UNCHANGED <<now, rl_limit, rl_window, rl_ncalls, rl_nadmitted,
                   rl_first, rl_last, rl_admitted, rl_shadow>>
    /\ UNCHANGED notRL

NextSweep == Tick \/ TickHour \/ IsAllowed \/ CleanupCall

\* the limiter's parameters do not enter cleanup; the widest setting gives
\* the longest histories
InitSweep == InitSpecRL /\ rl_limit = MaxLimit /\ rl_window = MaxWindow

SpecSweep == InitSweep /\ [][NextSweep]_vars

\* ----------------------------------------- is_allowed on several threads
\* RateLimiter has no lock: the statements of is_allowed run by different
\* threads interleave on the one table of _limiter (rate_limiter.py 82).

\* rate_limiter.py 46-47, 50: now = time.time(); request_times =
\* self.requests[identifier] (the defaultdict creates the entry)
ThreadEnter(t) ==
    /\ th_pc[t] = "idle"
    /\ \E id \in Identifiers :
        /\ th_id' = [th_id EXCEPT ![t] = id]
        /\ requests' = Store(requests, id, History(requests, id))
    /\ th_now' = [th_now EXCEPT ![t] = now]
    /\ th_pc' = [th_pc EXCEPT ![t] = "test"]
    /\ UNCHANGED <<th_res, now, rl_limit, rl_window, rl_ncalls, rl_nadmitted,
                   rl_first, rl_last, rl_sweep,
                   rl_admitted, rl_shadow>>
    /\ UNCHANGED notThr

\* rate_limiter.py 51: the loop test
\* request_times and request_times[0] < cutoff
ThreadPruneTest(t) ==
    /\ th_pc[t] = "test"
    /\ LET times == requests[th_id[t]] IN
       th_pc' = [th_pc EXCEPT ![t] =
                    IF times # <<>> /\ Head(times) < th_now[t] - rl_window
                    THEN "pop" ELSE "check"]
    /\ UNCHANGED <<th_id, th_now, th_res>>
    /\ UNCHANGED rlVars
    /\ UNCHANGED notThr

\* rate_limiter.py 52: request_times.popleft(), IndexError on an empty deque
ThreadPop(t) ==
    /\ th_pc[t] = "pop"
    /\ LET times == requests[th_id[t]] IN
       IF times = <<>>
       THEN /\ th_res' = [th_res EXCEPT ![t] = "IndexError"]
            /\ th_pc' = [th_pc EXCEPT ![t] = "done"]
            /\ UNCHANGED requests
       ELSE /\ requests' = [requests EXCEPT ![th_id[t]] = Tail(times)]
            /\ th_pc' = [th_pc EXCEPT ![t] = "test"]
            /\ UNCHANGED th_res
    /\ UNCHANGED <<th_id, th_now, now, rl_limit, rl_window, rl_ncalls,
                   rl_nadmitted, rl_first, rl_last, rl_sweep,
                   rl_admitted, rl_shadow>>
    /\ UNCHANGED notThr

\* rate_limiter.py 55-56: if len(request_times) >= limit: return False
ThreadCheck(t) ==
    /\ th_pc[t] = "check"
    /\ IF Admits(requests[th_id[t]], rl_limit)
       THEN /\ th_pc' = [th_pc EXCEPT ![t] = "append"]
            /\ UNCHANGED th_res
       ELSE /\ th_pc' = [th_pc EXCEPT ![t] = "done"]
            /\ th_res' = [th_res EXCEPT ![t] = "rejected"]
    /\ UNCHANGED <<th_id, th_now>>
    /\ UNCHANGED rlVars
    /\ UNCHANGED notThr

\* rate_limiter.py 59-60: request_times.append(now); return True
ThreadAppend(t) ==
    /\ th_pc[t] = "append"
    /\ requests' = [requests EXCEPT ![th_id[t]] = Append(@, th_now[t])]
    /\ th_res' = [th_res EXCEPT ![t] = "admitted"]
    /\ th_pc' = [th_pc EXCEPT ![t] = "done"]
    /\ UNCHANGED <<th_id, th_now, now, rl_limit, rl_window, rl_ncalls,
                   rl_nadmitted, rl_first, rl_last, rl_sweep,
                   rl_admitted, rl_shadow>>
    /\ UNCHANGED notThr

NextRLThreads ==
    \/ Tick
    \/ \E t \in Threads : ThreadEnter(t)
    \/ \E t \in Threads : ThreadPruneTest(t)
    \/ \E t \in Threads : ThreadPop(t)
    \/ \E t \in Threads : ThreadCheck(t)
    \/ \E t \in Threads : ThreadAppend(t)

SpecRLThreads == InitSpecRL /\ [][NextRLThreads]_vars

\* --------------------------------------------------------- format_seconds
\* the offsets (tenths of a second) given to format_seconds: the first
\* seconds, the seconds around one hour and the seconds around 01:01:01
Offsets ==
    (0..MaxTenths) \cup {35980 + k : k \in 0..MaxTenths}
                  \cup {36590 + k : k \in 0..MaxTenths}

\* formatting.py 6: format_seconds(seconds) is called
FormatCall ==
    /\ f_pc = "idle"
    /\ \E s \in Offsets : f_seconds' = s
    /\ f_pc' = "called"
    /\ UNCHANGED f_out
    /\ UNCHANGED notFmt

\* formatting.py 16-24: the fields it returns
FormatReturn ==
    /\ f_pc = "called"
    /\ f_out' = format_seconds(f_seconds)
    /\ f_pc' = "returned"
    /\ UNCHANGED f_seconds
    /\ UNCHANGED notFmt

NextFormat == FormatCall \/ FormatReturn

SpecFormat == Init /\ [][NextFormat]_vars

\* ------------------------------------------ init_whisper on several threads
\* transcription_service.py 22: transcribe_with_whisper calls init_whisper
WiCall(t) ==
    /\ wi_pc[t] = "idle"
    /\ wi_pc' = [wi_pc EXCEPT ![t] = "test"]
    /\ UNCHANGED <<wi_model, wi_built, wi_local, wi_ret>>
    /\ UNCHANGED notWI

\* transcription_service.py 11: if whisper_model is None
WiTest(t) ==
    /\ wi_pc[t] = "test"
    /\ wi_pc' = [wi_pc EXCEPT ![t] = IF wi_model = 0 THEN "construct"
                                     ELSE "return"]
    /\ UNCHANGED <<wi_model, wi_built, wi_local, wi_ret>>
    /\ UNCHANGED notWI

\* transcription_service.py 13, right-hand side: WhisperModel(...) loads the
\* model, or raises and leaves the global as it is
WiConstruct(t) ==
    /\ wi_pc[t] = "construct"
    /\ wi_built' = wi_built + 1
    /\ \E ok \in BOOLEAN :
        IF ok
        THEN /\ wi_local' = [wi_local EXCEPT ![t] = wi_built + 1]
             /\ wi_pc' = [wi_pc EXCEPT ![t] = "assign"]
        ELSE /\ wi_pc' = [wi_pc EXCEPT ![t] = "raised"]
             /\ UNCHANGED wi_local
    /\ UNCHANGED <<wi_model, wi_ret>>
    /\ UNCHANGED notWI

\* transcription_service.py 13, the store into the global
WiAssign(t) ==
    /\ wi_pc[t] = "assign"
    /\ wi_model' = wi_local[t]
    /\ wi_pc' = [wi_pc EXCEPT ![t] = "return"]
    /\ UNCHANGED <<wi_built, wi_local, wi_ret>>
    /\ UNCHANGED notWI

\* transcription_service.py 15: return whisper_model
WiReturn(t) ==
    /\ wi_pc[t] = "return"
    /\ wi_ret' = [wi_ret EXCEPT ![t] = wi_model]
    /\ wi_pc' = [wi_pc EXCEPT ![t] = "done"]
    /\ UNCHANGED <<wi_model, wi_built, wi_local>>
    /\ UNCHANGED notWI

\* the thread's next request that needs the local model
WiAgain(t) ==
    /\ wi_pc[t] \in {"done", "raised"}
    /\ wi_built < MaxBuilt
    /\ wi_pc' = [wi_pc EXCEPT ![t] = "idle"]
    /\ UNCHANGED <<wi_model, wi_built, wi_local, wi_ret>>
    /\ UNCHANGED notWI

NextWhisperInit ==
    \/ \E t \in Threads : WiCall(t)
    \/ \E t \in Threads : WiTest(t)
    \/ \E t \in Threads : WiConstruct(t)
    \/ \E t \in Threads : WiAssign(t)
    \/ \E t \in Threads : WiReturn(t)
    \/ \E t \in Threads : WiAgain(t)

SpecWhisperInit == Init /\ [][NextWhisperInit]_vars

\* ------------------------------------------------- requests and the limiter
\* routes.py 134, 330, 416: the routes that acquire or summarize
Routes == {"/transcript", "/summarize", "/hybrid"}

\* routes.py 134-135, 330-331, 416-417: each view carries @bp.route only;
\* rate_limit (rate_limiter.py 85) decorates none of them
RateLimited(route) == FALSE

\* routes.py 164, 352, 358: what a view runs once its body is entered
Operations(route) ==
    IF route = "/transcript" THEN {"acquisition"}
    ELSE {"acquisition", "summarization"}

\* rate_limiter.py 104-121: the wrapper rate_limit puts around a view
rate_limit(table, id, limit, window, t) ==
    LET r == is_allowed(table, id, limit, window, t)
    IN [gate |-> IF r.res THEN "admitted" ELSE "rejected",
        runs |-> r.res,
        table |-> Store(table, id, r.times)]

\* a view that rate_limit does not wrap is entered directly
Dispatch(route, table, id, limit, window, t) ==
    IF RateLimited(route) THEN rate_limit(table, id, limit, window, t)
    ELSE [gate |-> "not_consulted", runs |-> TRUE, table |-> table]

\* one HTTP request from a client address to one of the routes
HandleRequest ==
    /\ Len(g_log) < MaxRequests
    /\ \E route \in Routes, id \in Identifiers, ok \in BOOLEAN :
        LET d == Dispatch(route, requests, id, rl_limit, rl_window, now) IN
        /\ requests' = d.table
        /\ g_log' = Append(g_log,
                           [route |-> route, id |-> id, gate |-> d.gate,
                            status |-> IF ~d.runs THEN 429
                                       ELSE IF ok THEN 200 ELSE 500,
                            ops |-> IF d.runs THEN Operations(route) ELSE {}])
    /\ UNCHANGED <<now, rl_limit, rl_window, rl_ncalls, rl_nadmitted, rl_first,
                   rl_last, rl_sweep,
                   rl_admitted, rl_shadow>>
    /\ UNCHANGED notGate

NextGate == Tick \/ HandleRequest

SpecGate == InitSpecRL /\ [][NextGate]_vars

\* ============================================================== SpecRetry
\* what one attempt of the wrapped function does: it returns, or raises an
\* exception of one of these classes
ExceptionClasses == {"ConnectionError", "TimeoutError", "KeyError"}
AttemptKinds == {"ok"} \cup ExceptionClasses
\* the decorator's `exceptions` argument: (Exception,) or a narrower tuple
AllowLists == {ExceptionClasses, {"ConnectionError", "TimeoutError"}}
Delays == {1, 5}
Backoffs == {1, 2}

Reraise_Wrapped(e) == <<"RuntimeError", e[2]>>

\* decorators.py 64: a bare `raise` inside the except clause re-raises the
\* exception being handled, the one of the current attempt
Reraise(e) == e

\* decorators.py 47-49: the wrapper is entered
RetryCall ==
    /\ r_pc = "idle"
    /\ \E n \in 1..MaxAttempts, d \in Delays, b \in Backoffs :
        /\ r_max_attempts' = n
        /\ r_delay' = d
        /\ r_backoff' = b
        /\ r_current_delay' = d
    /\ \E x \in AllowLists : r_exceptions' = x
    /\ r_attempt' = 1
    /\ r_pc' = "call"
    /\ UNCHANGED <<r_outcomes, r_sleeps, r_result, r_last_exception>>
    /\ UNCHANGED notRetry

\* decorators.py 50-68: one pass of the loop body up to the sleep; attempt k
\* returns the value <<"value", k>> or raises the exception <<kind, k>>
RetryAttempt ==
    /\ r_pc = "call"
    /\ \E o \in AttemptKinds :
        /\ r_outcomes' = Append(r_outcomes, o)
        /\ IF o = "ok"
           THEN /\ r_result' = [kind |-> "return", val |-> <<"value", r_attempt>>]
                /\ r_pc' = "returned"
                /\ UNCHANGED r_last_exception
           ELSE /\ r_last_exception' = IF o \in r_exceptions THEN <<o, r_attempt>>
                                       ELSE r_last_exception
                /\ IF RetryOnFailure(r_attempt, r_max_attempts, o \in r_exceptions) = "raise"
                   THEN /\ r_result' = [kind |-> "raise",
                                        val |-> IF o \in r_exceptions
                                                THEN Reraise(<<o, r_attempt>>)
                                                ELSE <<o, r_attempt>>]
                        /\ r_pc' = "raised"
                   ELSE /\ r_pc' = "sleep"
                        /\ UNCHANGED r_result
    /\ UNCHANGED <<r_max_attempts, r_delay, r_backoff, r_exceptions,
                   r_attempt, r_current_delay, r_sleeps>>
    /\ UNCHANGED notRetry

NextDelay_Constant(d, b) == d

\* decorators.py 72: current_delay *= backoff
NextDelay(d, b) == d * b

\* decorators.py 70-72: time.sleep(current_delay); current_delay *= backoff
RetrySleep ==
    /\ r_pc = "sleep"
    /\ r_sleeps' = Append(r_sleeps, r_current_delay)
    /\ r_current_delay' = NextDelay(r_current_delay, r_backoff)
    /\ r_attempt' = r_attempt + 1
    /\ r_pc' = "call"
    /\ UNCHANGED <<r_max_attempts, r_delay, r_backoff, r_exceptions,
                   r_outcomes, r_result, r_last_exception>>
    /\ UNCHANGED notRetry

NextRetry == RetryCall \/ RetryAttempt \/ RetrySleep

InitSpecRetry ==
    InitCfgBoth /\ InitAcq /\ InitSum /\ InitRLIdle /\ InitRetry /\ InitIdle

SpecRetry == InitSpecRetry /\ [][NextRetry]_vars

\* ================================================================= claims
Done == pc = "done"
CaptionHit == ~diar /\ video_id.some /\ Truthy(caption_text)
CaptionMiss == ~diar /\ video_id.some /\ calls["captions"] = 1
               /\ ~Truthy(caption_text)
DownloadExhausted == calls["download"] = MAX_DOWNLOAD_ATTEMPTS /\ ~obtained

\* C1: a get_transcript call on a URL with a video id whose caption lookup
\* gives non-empty text has ended, returning exactly that text with the
\* caption source, and neither the downloader (its metadata fetch and its
\* download attempts) nor the local transcriber was invoked.
C1_CaptionHitReturnsWithoutDownload ==
    CaptionHit =>
        /\ Done
        /\ result = Ret(caption_text, "youtube")
        /\ calls["metadata"] = 0
        /\ calls["download"] = 0
        /\ calls["whisper"] = 0

C1_Witness ==
    Done /\ CaptionHit /\ result.kind = "return" /\ Len(result.transcript.lines) = 2

\* C2: a get_transcript call on a video without captions goes on to the
\* downloader, and when all download attempts have failed the call has ended
\* in a failure whose cause is audio_download, with no transcriber call.
C2_DownloadFailureIsAudioDownload ==
    /\ (CaptionMiss /\ Done) => calls["metadata"] = 1
    /\ (CaptionMiss /\ DownloadExhausted) =>
            /\ Done
            /\ result.kind = "raise"
            /\ result.transcript = None
            /\ result.source = "audio_download"
            /\ calls["whisper"] = 0

C2_Witness == CaptionMiss /\ DownloadExhausted /\ Done /\ Len(sleeps) = 2

\* C3 as stated: after an acquisition call that obtained an audio file or a
\* remote upload, that file and that upload no longer exist.
C3_ResourcesGoneAfterCall ==
    Done => /\ (obtained => audio_path \notin fs)
            /\ (uploaded => Blob \notin remote)

\* C3 as amended: after an acquisition call that obtained an audio file or a
\* remote upload, the file and the upload no longer exist unless the delete
\* issued for it in the finally block itself failed.
C3_ResourcesGoneUnlessDeleteFailed ==
    Done => /\ (obtained /\ "local" \notin rm_failed => audio_path \notin fs)
            /\ (uploaded /\ "remote" \notin rm_failed => Blob \notin remote)

C3_Witness ==
    Done /\ obtained /\ uploaded /\ rm_failed = {} /\ ~Truthy(result.transcript)

\* ---------------------------------------------------------- summarization
RECURSIVE CountSent(_, _)
CountSent(reqs, p) ==
    IF reqs = <<>> THEN 0
    ELSE (IF Head(reqs).provider = p THEN 1 ELSE 0) + CountSent(Tail(reqs), p)

SentBy(p) == CountSent(s_sent, p)
SumDone == s_pc = "done"
PrimaryConfigured == perplexity_api_key # ""
SecondaryConfigured == google_api_key # ""
InvokedWithText(p) == SentBy(p) = 1 /\ Truthy(s_answers[p])
SumSuccess == s_result.error = "none"
SumFailure ==
    [summary |-> None,
     error |-> IF s_entry = "controller" THEN "All summarization APIs failed"
               ELSE "Failed to generate summary"]

\* C4: within one summarize call each provider is invoked at most once; the
\* primary, when configured, is invoked first; the secondary is invoked
\* exactly once iff the primary failed and the secondary is configured, or
\* the primary is not configured; and once the secondary was invoked its
\* answer alone decides the result.
C4_SingleFallbackHop ==
    /\ SentBy("perplexity") <= 1
    /\ SentBy("gemini") <= 1
    /\ (PrimaryConfigured /\ s_sent # <<>>) => s_sent[1].provider = "perplexity"
    /\ SumDone =>
        /\ SentBy("perplexity") = (IF PrimaryConfigured THEN 1 ELSE 0)
        /\ SentBy("gemini") = 1 <=>
              \/ PrimaryConfigured /\ ~Truthy(s_answers["perplexity"])
                    /\ SecondaryConfigured
              \/ ~PrimaryConfigured
        /\ SentBy("gemini") = 1 =>
              s_result = (IF Truthy(s_answers["gemini"])
                          THEN [summary |-> s_answers["gemini"], error |-> "none"]
                          ELSE SumFailure)

C4_Witness ==
    SumDone /\ SentBy("perplexity") = 1 /\ SentBy("gemini") = 1
    /\ s_sent[2].provider = "gemini" /\ ~SumSuccess

\* C5: a summarize call succeeds iff some invoked provider returned non-empty
\* text, its result is then the text of the first such provider in the order
\* primary, secondary; otherwise the call fails, /api/summarize answers 500
\* and neither a summary nor a document is produced.
C5_SuccessIffSomeProviderAnswered ==
    SumDone =>
        /\ SumSuccess <=> (InvokedWithText("perplexity") \/ InvokedWithText("gemini"))
        /\ SumSuccess =>
              s_result.summary = (IF InvokedWithText("perplexity")
                                  THEN s_answers["perplexity"]
                                  ELSE s_answers["gemini"])
        /\ ~SumSuccess =>
              /\ s_result = SumFailure
              /\ s_entry = "endpoint" => (s_status = 500 /\ ~s_document)
        /\ (SumSuccess /\ s_entry = "endpoint") => (s_status = 200 /\ s_document)

C5_Witness ==
    SumDone /\ s_entry = "endpoint" /\ SentBy("perplexity") = 1
    /\ SentBy("gemini") = 1 /\ s_status = 500

\* C6: for a summary kind outside {concise, normal, detailed} each provider
\* builds the request it builds for normal (the normal template, the normal
\* token budget, the same text), and validate_summary_type maps a valid kind
\* to itself and anything else to normal.
C6_UnknownKindIsNormal ==
    /\ \A i \in DOMAIN s_sent :
          s_kind \notin {"concise", "normal", "detailed"} =>
              s_sent[i] = [provider |-> s_sent[i].provider,
                           prompt |-> Prompts["normal"],
                           max_tokens |-> MaxTokensMap["normal"],
                           text |-> Truncate(s_text)]
    /\ s_entry = "endpoint" =>
          s_kind = (IF s_raw_kind \in {"concise", "normal", "detailed"}
                    THEN s_raw_kind ELSE "normal")

C6_Witness ==
    SumDone /\ s_entry = "direct" /\ s_kind = "invalid_type" /\ Len(s_sent) = 2

\* ----------------------------------------------------------- rate limiter
LastId == rl_last.id
Called == rl_last.id # "none"
RECURSIVE CountAt(_, _)
CountAt(times, t) ==
    IF times = <<>> THEN 0
    ELSE (IF Head(times) = t THEN 1 ELSE 0) + CountAt(Tail(times), t)
InWindow(x) == x >= rl_last.t - rl_window
AdmittedBefore == rl_nadmitted[LastId] - (IF rl_last.res THEN 1 ELSE 0)

\* C7: from an empty history the first L calls of an identifier are admitted;
\* its (L+1)-th call, made within W seconds of the first, is rejected; and a
\* later call made more than W seconds after the first, when only those
\* first L calls were admitted so far, is admitted again.
C7_WindowScenario ==
    /\ \A i \in Identifiers :
          rl_ncalls[i] <= rl_limit => rl_nadmitted[i] = rl_ncalls[i]
    /\ Called =>
        /\ (rl_ncalls[LastId] = rl_limit + 1
              /\ rl_last.t <= rl_first[LastId] + rl_window) => ~rl_last.res
        /\ (rl_ncalls[LastId] > rl_limit /\ AdmittedBefore = rl_limit
              /\ rl_last.t > rl_first[LastId] + rl_window) => rl_last.res

C7_Witness ==
    Called /\ rl_limit = 2 /\ rl_ncalls[LastId] = 4 /\ rl_nadmitted[LastId] = 3
    /\ rl_last.res /\ rl_last.t > rl_first[LastId] + rl_window

OthersUntouched ==
    /\ DOMAIN requests = DOMAIN rl_last.prev \cup {LastId}
    /\ \A j \in DOMAIN requests \ {LastId} : requests[j] = rl_last.prev[j]

C9_BurstAtWindowAdmitted ==
    (Called /\ CountAt(rl_last.before, rl_last.t - rl_window) = rl_limit
        /\ Len(rl_last.before) = rl_limit) => rl_last.res

\* C9 as amended: when every earlier timestamp of the identifier is more than
\* W seconds old, a burst of up to L calls at the current time is admitted.
C9_BurstAfterWindowAdmitted ==
    (Called /\ CountAt(rl_last.before, rl_last.t) < rl_limit
        /\ \A i \in DOMAIN rl_last.before :
              \/ rl_last.before[i] = rl_last.t
              \/ rl_last.before[i] < rl_last.t - rl_window) => rl_last.res

C9_Witness ==
    Called /\ rl_limit = 2 /\ rl_last.res /\ Len(rl_last.before) = 2
    /\ rl_last.before[1] = rl_last.before[2]
    /\ rl_last.before[1] < rl_last.t - rl_window

\* ------------------------------------------------------------------ retry
Invocations == Len(r_outcomes)
OnlyAllowedFailures ==
    \A i \in DOMAIN r_outcomes : r_outcomes[i] = "ok" \/ r_outcomes[i] \in r_exceptions
NoSuccess == \A i \in DOMAIN r_outcomes : r_outcomes[i] # "ok"

\* C10: a wrapped function that fails only with allow-listed exceptions is
\* invoked exactly k times when attempt k is the first to succeed and exactly
\* N times when none succeeds; a success is returned at once, as that
\* attempt's value, with k - 1 sleeps before it and none after it.
C10_InvokedUntilFirstSuccess ==
    /\ Invocations <= r_max_attempts
    /\ r_pc = "returned" =>
        /\ r_outcomes[Invocations] = "ok"
        /\ \A i \in 1..(Invocations - 1) : r_outcomes[i] # "ok"
        /\ r_result = [kind |-> "return", val |-> <<"value", Invocations>>]
        /\ Len(r_sleeps) = Invocations - 1
    /\ ~NoSuccess => r_pc = "returned"
    /\ (OnlyAllowedFailures /\ NoSuccess /\ r_pc = "raised") =>
            Invocations = r_max_attempts

C10_Witness ==
    r_pc = "returned" /\ r_max_attempts = 3 /\ Invocations = 2
    /\ r_exceptions # ExceptionClasses

\* C11: when all N attempts fail with allow-listed exceptions the wrapper
\* ends by raising, and what it raises is the exception of the N-th attempt
\* itself, unchanged: not an earlier one, not a replacement, not a return.
C11_LastExceptionReraised ==
    (OnlyAllowedFailures /\ NoSuccess /\ Invocations = r_max_attempts) =>
        /\ r_pc = "raised"
        /\ r_result = [kind |-> "raise",
                       val |-> <<r_outcomes[r_max_attempts], r_max_attempts>>]
        /\ r_result.val = r_last_exception

C11_Witness ==
    r_pc = "raised" /\ OnlyAllowedFailures /\ r_max_attempts = 3
    /\ Invocations = 3 /\ r_outcomes[1] # r_outcomes[3]

\* C12: an attempt that raises an exception outside the allow-list is the
\* last invocation: that exception leaves the wrapper at once, no sleep
\* follows it and the remaining attempts are not used.
C12_OtherExceptionPropagates ==
    \A i \in DOMAIN r_outcomes :
        (r_outcomes[i] # "ok" /\ r_outcomes[i] \notin r_exceptions) =>
            /\ i = Invocations
            /\ r_pc = "raised"
            /\ r_result = [kind |-> "raise", val |-> <<r_outcomes[i], i>>]
            /\ Len(r_sleeps) = i - 1

C12_Witness ==
    r_pc = "raised" /\ r_max_attempts = 3 /\ Invocations = 2
    /\ r_outcomes[2] = "KeyError" /\ Len(r_sleeps) = 1

\* ------------------------------------------------------------ acquisition
NoVideoId == pc # "idle" /\ ~extract_video_id(url).some
NetworkCalls == {"captions", "title", "metadata", "download", "upload"}

\* C13: an acquisition call, with or without diarization, on a URL from
\* which no video identifier can be extracted has ended in failure with the
\* invalid-URL cause, and no caption lookup, title or metadata fetch, audio
\* download or upload was attempted.
C13_NoVideoIdNoNetwork ==
    NoVideoId =>
        /\ Done
        /\ result = Ret(None, ERROR_INVALID_URL)
        /\ \A c \in NetworkCalls : calls[c] = 0

RemoteCalls == {"upload", "poll", "generate", "rdelete"}

\* C14: in a call with diarization the caption lookup and the local
\* transcriber are never invoked and a transcript can only come from the
\* remote diarizing transcriber; in a call without diarization the remote
\* transcriber (upload, poll, generate, delete) is never invoked.
C14_FlagSelectsPath ==
    /\ diar =>
        /\ calls["captions"] = 0
        /\ calls["whisper"] = 0
        /\ (Done /\ Truthy(result.transcript)) =>
              (result.source = "gemini" /\ calls["generate"] = 1)
    /\ ~diar => \A c \in RemoteCalls : calls[c] = 0

C14_Witness ==
    Done /\ diar /\ obtained /\ Truthy(result.transcript)
    /\ result.source = "gemini"

\* C15: when the metadata fetch of download_audio_from_youtube reports a
\* duration above the ceiling, the call has failed with ValidationError,
\* the metadata was fetched once by the check, no download attempt was made,
\* no sleep happened and no temporary file exists.
C15_TooLongFailsBeforeDownload ==
    duration > max_video_duration =>
        /\ Done
        /\ result = Raise("ValidationError", "none")
        /\ calls["metadata"] = (IF diar THEN 2 ELSE 1)
        /\ calls["download"] = 0
        /\ dl_outcomes = <<>>
        /\ sleeps = <<>>
        /\ fs = {}

C15_Witness ==
    Done /\ ~diar /\ duration > max_video_duration
    /\ result.exc = "ValidationError"

\* C16: when download_audio_from_youtube has failed in all its attempts,
\* no temporary file created by any attempt exists any more.
C16_NoTempFilesAfterTerminalFailure ==
    (Done /\ result.exc = "AudioDownloadError") => fs = {}

GeminiReturned == diar /\ pc \in {"cleanup", "done"}

\* C18: when transcribe_with_gemini has returned, it issued exactly one
\* delete request if its upload succeeded, whatever the exit path, and none
\* if there was no upload; a delete is never issued twice or without upload.
C18_OneDeletePerUpload ==
    /\ calls["rdelete"] <= 1
    /\ calls["rdelete"] = 1 => uploaded
    /\ GeminiReturned => calls["rdelete"] = (IF uploaded THEN 1 ELSE 0)

C18_Witness ==
    Done /\ diar /\ uploaded /\ calls["rdelete"] = 1
    /\ result.source = "Gemini processing failed"

\* C19: the outcome of a cleanup step is not part of the caller's result:
\* the remote delete leaves the value on its way out of transcribe_with_gemini
\* as it was, and the value that leaves get_transcript or
\* get_diarized_transcript is the one pending before the temp-file delete,
\* whether these deletes succeed or fail.
C19_CleanupFailureKeepsResult ==
    [][/\ pc = "rdelete" => pending' = pending
       /\ pc = "cleanup" => result' = pending]_vars

C19_Witness ==
    Done /\ rm_failed = {"local", "remote"} /\ result = Ret(Some(GeminiText), "gemini")

\* C20: a returned transcript is never the empty text: an empty caption text
\* sends get_transcript on to the download path, an empty local
\* transcription is reported as failure, and a remote response without text
\* is reported as failure whose message carries the finish reason.
C20_SuccessHasText ==
    /\ (Done /\ result.transcript # None) =>
          (result.kind = "return" /\ Truthy(result.transcript))
    /\ (~diar /\ caption_text.some /\ ~Truthy(caption_text)) =>
          (pc = "metadata" \/ calls["metadata"] = 1)
    /\ (pc \in {"cleanup", "done"} /\ whisper_text.some /\ ~Truthy(whisper_text)) =>
          pending = Ret(None, "Failed to transcribe audio (Empty)")
    /\ response \in NoTextOutcomes =>
          pending = Ret(None, NoTextMessage(FinishReason(response)))

C20_Witness ==
    Done /\ ~diar /\ caption_text = Some(<<>>) /\ whisper_text = Some(<<>>)
    /\ result = Ret(None, "Failed to transcribe audio (Empty)")

\* C21: every call of get_transcript and of get_diarized_transcript that has
\* ended has ended by returning a pair, (transcript, source) or
\* (None, message); no failure has left the call as an exception.
C21_FailuresAreReturned ==
    Done => result.kind = "return"

\* C22: the SummarizationError raised by a failed summarization names the
\* provider that failed last: the provider of the last request sent, hence
\* the secondary when the primary failed and the secondary was tried.
C22_TagNamesLastFailedProvider ==
    (SumDone /\ s_raised.raised) =>
        /\ s_sent # <<>>
        /\ s_raised.provider = s_sent[Len(s_sent)].provider

\* -------------------------------------------------------- gate and threads
\* C23: every request that reached acquisition or summarization was first
\* admitted by is_allowed for its client identifier, and a request that
\* is_allowed refused was answered 429 and reached neither operation.
C23_OperationsBehindTheGate ==
    \A i \in DOMAIN g_log :
        /\ g_log[i].ops # {} => g_log[i].gate = "admitted"
        /\ g_log[i].gate = "rejected" =>
              (g_log[i].status = 429 /\ g_log[i].ops = {})

\* ------------------------------------------------------------ retry delays
RECURSIVE Pow(_, _)
Pow(b, n) == IF n = 0 THEN 1 ELSE b * Pow(b, n - 1)

\* C24: while every attempt fails with an allow-listed exception, the sleep
\* after the i-th failed attempt lasts D * B^(i-1); there is one sleep after
\* each failed attempt but the last, so N - 1 sleeps when the call gives up;
\* with the downloader's settings (3 attempts, 5 s, multiplier 1) the sleeps
\* of an exhausted call are exactly 5 s and 5 s.
C24_SleepsFollowBackoff ==
    (OnlyAllowedFailures /\ NoSuccess) =>
        /\ \A i \in DOMAIN r_sleeps :
              r_sleeps[i] = r_delay * Pow(r_backoff, i - 1)
        /\ r_pc = "sleep" => Len(r_sleeps) = Invocations - 1
        /\ r_pc = "call" => Len(r_sleeps) = Invocations
        /\ r_pc = "raised" =>
              /\ Len(r_sleeps) = r_max_attempts - 1
              /\ ( /\ r_max_attempts = MAX_DOWNLOAD_ATTEMPTS
                   /\ r_delay = DOWNLOAD_RETRY_DELAY
                   /\ r_backoff = DOWNLOAD_BACKOFF ) => r_sleeps = <<5, 5>>

C24_Witness ==
    /\ r_pc = "raised" /\ OnlyAllowedFailures /\ NoSuccess
    /\ r_max_attempts = 3 /\ r_delay = 5 /\ r_backoff = 2
    /\ r_sleeps = <<5, 10>>

\* ------------------------------------------------------------ stage order
\* C25: within one acquisition call the stages run one after another and each
\* is entered at most once: the caption lookup, then the audio download (whose
\* attempts are its own), then the transcription; the download starts only
\* after a caption miss, the transcription only after an obtained download,
\* and no earlier stage is active once a later one has run.
C25_StagesRunOnceInOrder ==
    /\ calls["captions"] <= 1
    /\ calls["whisper"] <= 1
    /\ calls["upload"] <= 1
    /\ calls["download"] <= MAX_DOWNLOAD_ATTEMPTS
    /\ ~diar =>
        /\ calls["metadata"] <= 1
        /\ (calls["metadata"] + calls["download"] > 0) =>
              (calls["captions"] = 1 /\ ~Truthy(caption_text))
        /\ calls["whisper"] > 0 => (obtained /\ calls["download"] > 0)
        /\ pc = "captions" =>
              calls["metadata"] + calls["download"] + calls["whisper"] = 0
        /\ pc \in {"metadata", "attempt", "backoff"} => calls["whisper"] = 0
    /\ diar => (calls["captions"] = 0 /\ calls["whisper"] = 0)

C25_Witness ==
    Done /\ ~diar /\ calls["captions"] = 1 /\ calls["download"] = 3
    /\ calls["whisper"] = 1 /\ result.kind = "return"

\* the calls for identifier id that were admitted with a timestamp in the
\* window of rl_window seconds that starts at t0
AdmittedIn(id, t0) ==
    {t \in Threads : /\ th_res[t] = "admitted"
                     /\ th_id[t] = id
                     /\ th_now[t] \in t0..(t0 + rl_window - 1)}

\* C26: when is_allowed calls for one identifier run on different threads at
\* the same time, the number of calls that return true within one window
\* never exceeds the limit, whatever the interleaving of their prune,
\* count-check and append steps.
C26_ConcurrentCallsKeepTheLimit ==
    \A id \in Identifiers, t0 \in 0..MaxTime :
        Cardinality(AdmittedIn(id, t0)) <= rl_limit

\* a model was loaded: a constructor call that returned
Loaded == {k \in 1..wi_built : \E t \in Threads : wi_local[t] = k}

\* C27: over the life of the process the local speech model is constructed
\* at most once, also when several first uses run at the same time.
C27_ModelBuiltAtMostOnce ==
    Cardinality(Loaded) <= 1

\* ------------------------------------------------------------ the wait loop
\* C28: transcribe_with_gemini polls for as long as the remote state is
\* PROCESSING and sends no generation request in that state; when the remote
\* state eventually leaves PROCESSING or a poll raises, a call that uploaded
\* eventually returns, having asked for the blob's deletion.
C28_PollingEndsWhenStateLeaves ==
    /\ [](calls["generate"] > 0 => rstate # "PROCESSING")
    /\ [](pc = "poll_get" => rstate = "PROCESSING")
    /\ uploaded ~> (GeminiReturned /\ calls["rdelete"] = 1)

C28_Witness ==
    /\ GeminiReturned /\ calls["poll"] = MaxPolls /\ calls["rdelete"] = 1
    /\ calls["generate"] = 1 /\ rstate = "ACTIVE"

\* without the assumption on the remote side the call need not return
C28_ReturnsUnconditionally == uploaded ~> GeminiReturned

\* ---------------------------------------------------------------- cleanup
Recent(x) == x >= rl_sweep.t - CLEANUP_AGE

\* C29: right after RateLimiter.cleanup returned, no identifier with an empty
\* history is left, no remaining timestamp is older than 3600 s, and every
\* identifier that had timestamps of the last 3600 s keeps exactly those.
C29_CleanupKeepsRecentOnly ==
    rl_sweep.fresh =>
        /\ \A id \in DOMAIN requests :
              /\ requests[id] # <<>>
              /\ \A i \in DOMAIN requests[id] : Recent(requests[id][i])
        /\ \A id \in DOMAIN rl_sweep.prev :
              SelectSeq(rl_sweep.prev[id], Recent) # <<>> =>
                  /\ id \in DOMAIN requests
                  /\ requests[id] = SelectSeq(rl_sweep.prev[id], Recent)

C29_Witness ==
    /\ rl_sweep.fresh
    /\ DOMAIN rl_sweep.prev = Identifiers
    /\ \E id \in Identifiers :
          /\ id \notin DOMAIN requests
          /\ \E other \in DOMAIN requests :
                /\ Len(rl_sweep.prev[other]) = 2
                /\ Len(requests[other]) = 1

\* ------------------------------------------------------------- truncation
\* C30: the text a provider embeds in its request is the first
\* min(len(text), C) characters of the input, C being the configured maximum
\* text length; an oversized input is never sent whole.
C30_SentTextIsConfiguredPrefix ==
    \A i \in DOMAIN s_sent :
        s_sent[i].text =
            [id |-> s_text.id,
             len |-> IF s_text.len < max_text_length THEN s_text.len
                     ELSE max_text_length]

\* ------------------------------------------------------------- timestamps
Floor == f_seconds \div 10

\* C31: for an offset s >= 0 format_seconds renders floor(s) as [MM:SS] when
\* floor(s) < 3600 and as [HH:MM:SS] otherwise, with MM < 60, SS < 60 and
\* HH*3600 + MM*60 + SS = floor(s); 5.2 gives [00:05], 3599 gives [59:59],
\* 3600 gives [01:00:00] and 3661 gives [01:01:01].
C31_TimestampFields ==
    f_pc = "returned" =>
        /\ Floor < 3600 =>
              /\ Len(f_out) = 2
              /\ f_out[1] < 60 /\ f_out[2] < 60
              /\ f_out[1] * 60 + f_out[2] = Floor
        /\ Floor >= 3600 =>
              /\ Len(f_out) = 3
              /\ f_out[2] < 60 /\ f_out[3] < 60
              /\ f_out[1] * 3600 + f_out[2] * 60 + f_out[3] = Floor
        /\ f_seconds = 52 => f_out = <<0, 5>>
        /\ f_seconds = 35990 => f_out = <<59, 59>>
        /\ f_seconds = 36000 => f_out = <<1, 0, 0>>
        /\ f_seconds = 36610 => f_out = <<1, 1, 1>>

C31_Witness ==
    f_pc = "returned" /\ f_seconds = 36610 /\ f_out = <<1, 1, 1>>

\* ---------------------------------------------------------- duration guard
\* C32: the duration guard is best-effort: a call that ends before its first
\* download attempt with an exception ends with the too-long validation
\* error; any other failure of the metadata fetch is logged and the call goes
\* on to the download attempts.
C32_GuardFailsOnlyWhenTooLong ==
    (Done /\ result.kind = "raise" /\ calls["download"] = 0) =>
        result.exc = "ValidationError"

\* ------------------------------------------------- sliding-window bounds
AdmittedWithin(id, a, b) ==
    {i \in DOMAIN rl_admitted[id] : rl_admitted[id][i] \in a..b}

NonDecreasing(times) ==
    \A i \in DOMAIN times : \A j \in DOMAIN times : i <= j => times[i] <= times[j]

\* C33: for each identifier, under sequential calls and a clock that never
\* goes back, every closed time interval of length W holds at most L
\* admitted calls, and the stored timestamps are in non-decreasing order and
\* never more than L.
C33_AtMostLimitPerWindow ==
    \A id \in Identifiers :
        /\ \A a \in 0..MaxTime :
              Cardinality(AdmittedWithin(id, a, a + rl_window)) <= rl_limit
        /\ id \in DOMAIN requests =>
              /\ Len(requests[id]) <= rl_limit
              /\ NonDecreasing(requests[id])

C33_Witness ==
    \E id \in Identifiers :
        /\ rl_limit = 2 /\ Len(rl_admitted[id]) = 3 /\ rl_ncalls[id] = 4
        /\ Len(requests[id]) = 1

\* the identifier's admitted calls before the last call
AdmittedEarlier ==
    IF rl_last.res
    THEN SubSeq(rl_admitted[LastId], 1, Len(rl_admitted[LastId]) - 1)
    ELSE rl_admitted[LastId]

\* C34: rejected calls never postpone re-admission: a call made more than W
\* seconds after the identifier's L-th most recent admitted call is admitted,
\* however many of its calls were rejected in between.
C34_RejectionsDoNotPostpone ==
    (Called /\ Len(AdmittedEarlier) >= rl_limit
        /\ rl_last.t > AdmittedEarlier[Len(AdmittedEarlier) - rl_limit + 1]
                       + rl_window) => rl_last.res

C34_Witness ==
    /\ Called /\ rl_last.res /\ rl_limit = 1
    /\ rl_ncalls[LastId] = 4 /\ rl_nadmitted[LastId] = 2
    /\ Len(AdmittedEarlier) = 1
    /\ rl_last.t > AdmittedEarlier[1] + rl_window

\* C35: with a window of at most 3600 s, running cleanup at any point of a
\* call sequence changes no later answer of is_allowed: each answer equals
\* the answer of the limiter on which cleanup never ran.
C35_CleanupChangesNoAnswer ==
    (Called /\ rl_window <= CLEANUP_AGE) => rl_last.res = rl_shadow.res

C35_Witness ==
    /\ Called /\ ~rl_sweep.fresh
    /\ cleanup(rl_sweep.prev, rl_sweep.t) # rl_sweep.prev
    /\ LastId \in DOMAIN rl_sweep.prev
    /\ LastId \notin DOMAIN cleanup(rl_sweep.prev, rl_sweep.t)
    /\ rl_shadow.table # requests
    /\ rl_last.res /\ rl_shadow.res

\* ------------------------------------------------------ configured providers
KeyOf(p) == IF p = "perplexity" THEN perplexity_api_key ELSE google_api_key

\* C36: under every configuration that passes start-up validation a
\* summarize call sends no request to a provider whose API key is not set:
\* the primary is called only with its key set, and so is the secondary.
C36_NoRequestWithoutKey ==
    ValidConfig => \A i \in DOMAIN s_sent : KeyOf(s_sent[i].provider) # ""

C36_Witness ==
    /\ SumDone /\ google_api_key = "" /\ ~SumSuccess
    /\ Len(s_sent) = 1 /\ s_sent[1].provider = "perplexity"

\* ------------------------------------------------- transcribers never raise
\* C37: the transcribers never raise: an exception inside
\* transcribe_with_whisper becomes None and one inside transcribe_with_gemini
\* becomes (None, message). So a call that reached a transcriber ends with a
\* returned pair, and a failure of the local transcriber reaches the caller of
\* get_transcript as the empty-transcript failure, never as "Whisper failed".
C37_TranscribersNeverRaise ==
    /\ (calls["whisper"] > 0 \/ calls["upload"] > 0) =>
          (pending.kind # "raise" /\ result.kind # "raise")
    /\ (Done /\ calls["whisper"] > 0 /\ ~Truthy(whisper_text)) =>
          result = Ret(None, "Failed to transcribe audio (Empty)")
    /\ (diar /\ Done /\ calls["upload"] > 0) => result.kind = "return"

C37_Witness ==
    /\ Done /\ calls["whisper"] = 1 /\ ~whisper_text.some
    /\ result = Ret(None, "Failed to transcribe audio (Empty)")

\* ------------------------------------------------- files after a download
\* download_audio_from_youtube has just returned a path to its caller
DownloadReturned == obtained /\ pc \in {"whisper", "upload"}

\* C38: when download_audio_from_youtube succeeds, the file it returns is
\* the only file created by the call that still exists: the placeholder of
\* every attempt is gone and the returned file is still there.
C38_OnlyReturnedFileRemains ==
    DownloadReturned => fs = {audio_path}

====
